---------------------------- MODULE Spec2Model ----------------------------
(***************************************************************************)
(* Gateway virtual-routing core of the BACnet stack                        *)
(* (src/bacnet/basic/object/gateway/gw_device.c): the table Devices[],     *)
(* the occupied-slot count Num_Managed_Devices, the process-wide selection *)
(* iCurrent_Device_Idx ("Context"), the address matcher, the GetNext       *)
(* routing iterator, and the property / service entry points that act on   *)
(* the selected device.                                                    *)
(*                                                                         *)
(* Every C function is an operator that takes the globals it reads as      *)
(* arguments (D = Devices, num = Num_Managed_Devices, cur =                *)
(* iCurrent_Device_Idx) and returns a record with the globals it may have  *)
(* written and its return value.  Each entry point is one action.          *)
(***************************************************************************)
EXTENDS Integers, Sequences, FiniteSets, TLC

VARIABLES
    Devices,              \* DEVICE_OBJECT_DATA Devices[MAX_NUM_DEVICES]
    Num_Managed_Devices,  \* uint16_t Num_Managed_Devices
    iCurrent_Device_Idx,  \* uint16_t iCurrent_Device_Idx
    msg,                  \* per inbound message: the caller's GetNext loop
    call,                 \* the entry point called last, with its arguments
    ret                   \* what that call returned

vars == <<Devices, Num_Managed_Devices, iCurrent_Device_Idx, msg, call, ret>>

---------------------------------------------------------------------------
(* Sizes.  MAX_NUM_DEVICES and MAX_MAC_LEN are set in headers; the model   *)
(* is checked for small values of both.                                    *)
MAX_NUM_DEVICES == 3

MAX_MAC_LEN == 2

(* Guard that keeps Database_Revision, which the code never bounds, finite *)
MaxRevision == 2

UINT16_MAX == 65535

BACNET_BROADCAST_NETWORK == 65535

BACNET_MAX_INSTANCE == 4194303

MAX_DEV_NAME_LEN == 32

MAX_DEV_DESC_LEN == 64

CHARACTER_UTF8 == 0

OBJECT_DEVICE == 8

Slots == 0 .. (MAX_NUM_DEVICES - 1)

---------------------------------------------------------------------------
(* MAC addresses: arrays of MAX_MAC_LEN octets, indexed from 0 as in C.    *)
ZeroMac == [i \in 0 .. (MAX_MAC_LEN - 1) |-> 0]

MacA == [i \in 0 .. (MAX_MAC_LEN - 1) |-> IF i = 0 THEN 1 ELSE 0]

MacB == [i \in 0 .. (MAX_MAC_LEN - 1) |-> IF i <= 1 THEN 1 ELSE 0]

(* A pointer argument: NULL, or a reference to an octet buffer *)
NullPtr == [null |-> TRUE, adr |-> ZeroMac]

PtrTo(a) == [null |-> FALSE, adr |-> a]

(* Static storage is zero-initialised: an unoccupied slot reads as zeros.  *)
ZeroDevice ==
    [Object_Instance_Number |-> 0,
     Object_Name |-> "",
     Description |-> "",
     adr |-> ZeroMac,
     Database_Revision |-> 0]

---------------------------------------------------------------------------
(* void Routed_Device_Inc_Database_Revision(void) *)
Routed_Device_Inc_Database_Revision(D, cur) ==
    [D EXCEPT ![cur].Database_Revision = @ + 1]

Set_Object_Name_AnyEncoding(D, cur, encoding, value) ==
    IF Len(value) < MAX_DEV_NAME_LEN
    THEN [D |-> Routed_Device_Inc_Database_Revision(
                    [D EXCEPT ![cur].Object_Name = value], cur),
          status |-> TRUE]
    ELSE [D |-> D, status |-> FALSE]

(* bool Routed_Device_Set_Object_Name(encoding, value, length) *)
Routed_Device_Set_Object_Name(D, cur, encoding, value) ==
    IF (encoding = CHARACTER_UTF8) /\ (Len(value) < MAX_DEV_NAME_LEN)
    THEN [D |-> Routed_Device_Inc_Database_Revision(
                    [D EXCEPT ![cur].Object_Name = value], cur),
          status |-> TRUE]
    ELSE [D |-> D, status |-> FALSE]

Set_Description_BumpsRevision(D, cur, value) ==
    IF Len(value) < MAX_DEV_DESC_LEN
    THEN [D |-> Routed_Device_Inc_Database_Revision(
                    [D EXCEPT ![cur].Description = value], cur),
          status |-> TRUE]
    ELSE [D |-> D, status |-> FALSE]

(* bool Routed_Device_Set_Description(name, length) *)
Routed_Device_Set_Description(D, cur, value) ==
    IF Len(value) < MAX_DEV_DESC_LEN
    THEN [D |-> [D EXCEPT ![cur].Description = value], status |-> TRUE]
    ELSE [D |-> D, status |-> FALSE]

Set_Object_Instance_Number_Slot0(D, cur, object_id) ==
    IF object_id <= BACNET_MAX_INSTANCE
    THEN [D |-> Routed_Device_Inc_Database_Revision(
                    [D EXCEPT ![0].Object_Instance_Number = object_id], 0),
          status |-> TRUE]
    ELSE [D |-> D, status |-> FALSE]

Set_Object_Instance_Number_StoresFirst(D, cur, object_id) ==
    LET D1 == Routed_Device_Inc_Database_Revision(
                  [D EXCEPT ![cur].Object_Instance_Number = object_id], cur)
    IN  IF object_id <= BACNET_MAX_INSTANCE
        THEN [D |-> D1, status |-> TRUE]
        ELSE [D |-> D1, status |-> FALSE]

Set_Object_Instance_Number_AlsoGateway(D, cur, object_id) ==
    IF object_id <= BACNET_MAX_INSTANCE
    THEN [D |-> Routed_Device_Inc_Database_Revision(
                    [D EXCEPT ![cur].Object_Instance_Number = object_id,
                              ![0].Object_Instance_Number = object_id], cur),
          status |-> TRUE]
    ELSE [D |-> D, status |-> FALSE]

(* bool Routed_Device_Set_Object_Instance_Number(object_id) *)
Routed_Device_Set_Object_Instance_Number(D, cur, object_id) ==
    IF object_id <= BACNET_MAX_INSTANCE
    THEN [D |-> Routed_Device_Inc_Database_Revision(
                    [D EXCEPT ![cur].Object_Instance_Number = object_id], cur),
          status |-> TRUE]
    ELSE [D |-> D, status |-> FALSE]

---------------------------------------------------------------------------
(* A character-string argument that may be NULL *)
NullName == [null |-> TRUE, encoding |-> CHARACTER_UTF8, value |-> ""]

NameOf(enc, v) == [null |-> FALSE, encoding |-> enc, value |-> v]

NullDescr == [null |-> TRUE, value |-> ""]

DescrOf(v) == [null |-> FALSE, value |-> v]

Add_Routed_Device_Unchecked(D, num, cur, Object_Instance, sObject_Name, sDescription) ==
    LET i == num
        D1 == [D EXCEPT ![i].Object_Instance_Number = Object_Instance]
        D2 == IF ~sObject_Name.null
              THEN Routed_Device_Set_Object_Name(
                       D1, i, sObject_Name.encoding, sObject_Name.value).D
              ELSE Routed_Device_Set_Object_Name(
                       D1, i, CHARACTER_UTF8, "No Name").D
        D3 == IF ~sDescription.null
              THEN Routed_Device_Set_Description(D2, i, sDescription.value).D
              ELSE Routed_Device_Set_Description(D2, i, "No Descr").D
    IN  [D |-> [D3 EXCEPT ![i].Database_Revision = 0],
         num |-> num + 1,
         cur |-> IF i < MAX_NUM_DEVICES THEN i ELSE cur,
         ret |-> i]

Add_Routed_Device_NoRevisionReset(D, num, cur, Object_Instance, sObject_Name, sDescription) ==
    LET i == num IN
    IF i < MAX_NUM_DEVICES
    THEN LET D1 == [D EXCEPT ![i].Object_Instance_Number = Object_Instance]
             D2 == IF ~sObject_Name.null
                   THEN Routed_Device_Set_Object_Name(
                            D1, i, sObject_Name.encoding, sObject_Name.value).D
                   ELSE Routed_Device_Set_Object_Name(
                            D1, i, CHARACTER_UTF8, "No Name").D
             D3 == IF ~sDescription.null
                   THEN Routed_Device_Set_Description(D2, i, sDescription.value).D
                   ELSE Routed_Device_Set_Description(D2, i, "No Descr").D
         IN  [D |-> D3, num |-> num + 1, cur |-> i, ret |-> i]
    ELSE [D |-> D, num |-> num, cur |-> cur, ret |-> UINT16_MAX]

(* uint16_t Add_Routed_Device(Object_Instance, sObject_Name, sDescription) *)
Add_Routed_Device(D, num, cur, Object_Instance, sObject_Name, sDescription) ==
    LET i == num IN
    IF i < MAX_NUM_DEVICES
    THEN LET D1 == [D EXCEPT ![i].Object_Instance_Number = Object_Instance]
             \* the name and description setters act on iCurrent_Device_Idx,
             \* which was just set to i
             D2 == IF ~sObject_Name.null
                   THEN Routed_Device_Set_Object_Name(
                            D1, i, sObject_Name.encoding, sObject_Name.value).D
                   ELSE Routed_Device_Set_Object_Name(
                            D1, i, CHARACTER_UTF8, "No Name").D
             D3 == IF ~sDescription.null
                   THEN Routed_Device_Set_Description(D2, i, sDescription.value).D
                   ELSE Routed_Device_Set_Description(D2, i, "No Descr").D
         IN  [D |-> [D3 EXCEPT ![i].Database_Revision = 0],
              num |-> num + 1,
              cur |-> i,
              ret |-> i]
    ELSE [D |-> D, num |-> num, cur |-> cur, ret |-> UINT16_MAX]

---------------------------------------------------------------------------
(* A returned pointer into Devices[]: NULL, or the slot it points at *)
NullRef == [null |-> TRUE, at |-> 0]

RefTo(i) == [null |-> FALSE, at |-> i]

Get_Routed_Device_Object_NoSelect(cur, idx) ==
    IF idx = -1
    THEN [cur |-> cur, ret |-> RefTo(cur)]
    ELSE IF (idx >= 0) /\ (idx < MAX_NUM_DEVICES)
         THEN [cur |-> cur, ret |-> RefTo(idx)]
         ELSE [cur |-> cur, ret |-> NullRef]

Get_Routed_Device_Object_NoUpperBound(cur, idx) ==
    IF idx = -1
    THEN [cur |-> cur, ret |-> RefTo(cur)]
    ELSE IF idx >= 0
         THEN [cur |-> idx, ret |-> RefTo(idx)]
         ELSE [cur |-> cur, ret |-> NullRef]

(* DEVICE_OBJECT_DATA *Get_Routed_Device_Object(int idx) *)
Get_Routed_Device_Object(cur, idx) ==
    IF idx = -1
    THEN [cur |-> cur, ret |-> RefTo(cur)]
    ELSE IF (idx >= 0) /\ (idx < MAX_NUM_DEVICES)
         THEN [cur |-> idx, ret |-> RefTo(idx)]
         ELSE [cur |-> cur, ret |-> NullRef]

(* BACNET_ADDRESS *Get_Routed_Device_Address(int idx) *)
Get_Routed_Device_Address(cur, idx) ==
    IF idx = -1
    THEN [cur |-> cur, ret |-> RefTo(cur)]
    ELSE IF (idx >= 0) /\ (idx < MAX_NUM_DEVICES)
         THEN [cur |-> idx, ret |-> RefTo(idx)]
         ELSE [cur |-> cur, ret |-> NullRef]

---------------------------------------------------------------------------
(* The comparison loop of Routed_Device_Address_Lookup: the value of i     *)
(* when the for loop ends, started at i.                                   *)
RECURSIVE CompareOctets(_, _, _, _)
CompareOctets(stored, dadr, i, dlen) ==
    IF i < dlen
    THEN IF stored[i] # dadr[i]
         THEN i
         ELSE CompareOctets(stored, dadr, i + 1, dlen)
    ELSE i

Address_Lookup_FirstOctetOnly(D, cur, idx, dlen, dadr) ==
    IF (idx >= 0) /\ (idx < MAX_NUM_DEVICES)
    THEN IF dlen = 0
         THEN [result |-> TRUE, cur |-> idx]
         ELSE IF ~dadr.null
              THEN IF D[idx].adr[0] = dadr.adr[0]
                   THEN [result |-> TRUE, cur |-> idx]
                   ELSE [result |-> FALSE, cur |-> cur]
              ELSE [result |-> FALSE, cur |-> cur]
    ELSE [result |-> FALSE, cur |-> cur]

Address_Lookup_SelectsOnMismatch(D, cur, idx, dlen, dadr) ==
    IF (idx >= 0) /\ (idx < MAX_NUM_DEVICES)
    THEN IF dlen = 0
         THEN [result |-> TRUE, cur |-> idx]
         ELSE IF ~dadr.null
              THEN IF CompareOctets(D[idx].adr, dadr.adr, 0, dlen) = dlen
                   THEN [result |-> TRUE, cur |-> idx]
                   ELSE [result |-> FALSE, cur |-> idx]
              ELSE [result |-> FALSE, cur |-> cur]
    ELSE [result |-> FALSE, cur |-> cur]

Address_Lookup_NoSelect(D, cur, idx, dlen, dadr) ==
    IF (idx >= 0) /\ (idx < MAX_NUM_DEVICES)
    THEN IF dlen = 0
         THEN [result |-> TRUE, cur |-> cur]
         ELSE IF ~dadr.null
              THEN IF CompareOctets(D[idx].adr, dadr.adr, 0, dlen) = dlen
                   THEN [result |-> TRUE, cur |-> cur]
                   ELSE [result |-> FALSE, cur |-> cur]
              ELSE [result |-> FALSE, cur |-> cur]
    ELSE [result |-> FALSE, cur |-> cur]

(* bool Routed_Device_Address_Lookup(int idx, uint8_t dlen, dadr) *)
Routed_Device_Address_Lookup(D, cur, idx, dlen, dadr) ==
    IF (idx >= 0) /\ (idx < MAX_NUM_DEVICES)
    THEN IF dlen = 0
         THEN [result |-> TRUE, cur |-> idx]
         ELSE IF ~dadr.null
              THEN IF CompareOctets(D[idx].adr, dadr.adr, 0, dlen) = dlen
                   THEN [result |-> TRUE, cur |-> idx]
                   ELSE [result |-> FALSE, cur |-> cur]
              ELSE [result |-> FALSE, cur |-> cur]
    ELSE [result |-> FALSE, cur |-> cur]

---------------------------------------------------------------------------
(* The while loop of the virtual-network branch of Routed_Device_GetNext,  *)
(* entered with idx; tested collects the slots handed to the matcher.      *)
RECURSIVE ScanRoutedDevices(_, _, _, _, _)
ScanRoutedDevices(D, cur, idx, dest, tested) ==
    IF idx < MAX_NUM_DEVICES
    THEN LET r == Routed_Device_Address_Lookup(
                      D, cur, idx, dest.len, PtrTo(dest.adr))
         IN  IF r.result
             THEN [bSuccess |-> TRUE, idx |-> idx + 1, cur |-> r.cur,
                   tested |-> Append(tested, idx)]
             ELSE ScanRoutedDevices(
                      D, r.cur, idx + 1, dest, Append(tested, idx))
    ELSE [bSuccess |-> FALSE, idx |-> idx, cur |-> cur, tested |-> tested]

Branches_ForeignScans(D, cur, dest, DNET_list, cursor) ==
    LET dnet == DNET_list[1]
        idx == cursor
    IN  IF (idx < 0) \/ (idx >= MAX_NUM_DEVICES)
        THEN [bSuccess |-> FALSE, idx |-> -1, cur |-> cur, tested |-> <<>>]
        ELSE IF dest.net = BACNET_BROADCAST_NETWORK
        THEN LET r == Routed_Device_Address_Lookup(
                          D, cur, idx, dest.len, PtrTo(dest.adr))
             IN  [bSuccess |-> r.result, idx |-> idx + 1, cur |-> r.cur,
                  tested |-> <<idx>>]
        ELSE IF dest.net = 0
        THEN LET r == Routed_Device_Address_Lookup(
                          D, cur, 0, dest.len, PtrTo(dest.adr))
             IN  [bSuccess |-> r.result, idx |-> -1, cur |-> r.cur,
                  tested |-> <<0>>]
        ELSE IF TRUE
        THEN ScanRoutedDevices(
                 D, cur, IF idx = 0 THEN 1 ELSE idx, dest, <<>>)
        ELSE [bSuccess |-> FALSE, idx |-> idx, cur |-> cur, tested |-> <<>>]

Branches_NoRangeCheck(D, cur, dest, DNET_list, cursor) ==
    LET dnet == DNET_list[1]
        idx == cursor
    IN  IF FALSE
        THEN [bSuccess |-> FALSE, idx |-> -1, cur |-> cur, tested |-> <<>>]
        ELSE IF dest.net = BACNET_BROADCAST_NETWORK
        THEN LET r == Routed_Device_Address_Lookup(
                          D, cur, idx, dest.len, PtrTo(dest.adr))
             IN  [bSuccess |-> r.result, idx |-> idx + 1, cur |-> r.cur,
                  tested |-> <<idx>>]
        ELSE IF dest.net = 0
        THEN LET r == Routed_Device_Address_Lookup(
                          D, cur, 0, dest.len, PtrTo(dest.adr))
             IN  [bSuccess |-> r.result, idx |-> -1, cur |-> r.cur,
                  tested |-> <<0>>]
        ELSE IF dest.net = dnet
        THEN ScanRoutedDevices(
                 D, cur, IF idx = 0 THEN 1 ELSE idx, dest, <<>>)
        ELSE [bSuccess |-> FALSE, idx |-> idx, cur |-> cur, tested |-> <<>>]

Branches_VirtualRestarts(D, cur, dest, DNET_list, cursor) ==
    LET dnet == DNET_list[1]
        idx == cursor
    IN  IF (idx < 0) \/ (idx >= MAX_NUM_DEVICES)
        THEN [bSuccess |-> FALSE, idx |-> -1, cur |-> cur, tested |-> <<>>]
        ELSE IF dest.net = BACNET_BROADCAST_NETWORK
        THEN LET r == Routed_Device_Address_Lookup(
                          D, cur, idx, dest.len, PtrTo(dest.adr))
             IN  [bSuccess |-> r.result, idx |-> idx + 1, cur |-> r.cur,
                  tested |-> <<idx>>]
        ELSE IF dest.net = 0
        THEN LET r == Routed_Device_Address_Lookup(
                          D, cur, 0, dest.len, PtrTo(dest.adr))
             IN  [bSuccess |-> r.result, idx |-> -1, cur |-> r.cur,
                  tested |-> <<0>>]
        ELSE IF dest.net = dnet
        THEN ScanRoutedDevices(
                 D, cur, 1, dest, <<>>)
        ELSE [bSuccess |-> FALSE, idx |-> idx, cur |-> cur, tested |-> <<>>]

Branches_BroadcastNoAdvance(D, cur, dest, DNET_list, cursor) ==
    LET dnet == DNET_list[1]
        idx == cursor
    IN  IF (idx < 0) \/ (idx >= MAX_NUM_DEVICES)
        THEN [bSuccess |-> FALSE, idx |-> -1, cur |-> cur, tested |-> <<>>]
        ELSE IF dest.net = BACNET_BROADCAST_NETWORK
        THEN LET r == Routed_Device_Address_Lookup(
                          D, cur, idx, dest.len, PtrTo(dest.adr))
             IN  [bSuccess |-> r.result,
                  idx |-> idx, cur |-> r.cur,
                  tested |-> <<idx>>]
        ELSE IF dest.net = 0
        THEN LET r == Routed_Device_Address_Lookup(
                          D, cur, 0, dest.len, PtrTo(dest.adr))
             IN  [bSuccess |-> r.result, idx |-> -1, cur |-> r.cur,
                  tested |-> <<0>>]
        ELSE IF dest.net = dnet
        THEN ScanRoutedDevices(
                 D, cur, IF idx = 0 THEN 1 ELSE idx, dest, <<>>)
        ELSE [bSuccess |-> FALSE, idx |-> idx, cur |-> cur, tested |-> <<>>]

Branches_LocalTestsCursorSlot(D, cur, dest, DNET_list, cursor) ==
    LET dnet == DNET_list[1]
        idx == cursor
    IN  IF (idx < 0) \/ (idx >= MAX_NUM_DEVICES)
        THEN [bSuccess |-> FALSE, idx |-> -1, cur |-> cur, tested |-> <<>>]
        ELSE IF dest.net = BACNET_BROADCAST_NETWORK
        THEN LET r == Routed_Device_Address_Lookup(
                          D, cur, idx, dest.len, PtrTo(dest.adr))
             IN  [bSuccess |-> r.result, idx |-> idx + 1, cur |-> r.cur,
                  tested |-> <<idx>>]
        ELSE IF dest.net = 0
        THEN LET r == Routed_Device_Address_Lookup(
                          D, cur, idx, dest.len, PtrTo(dest.adr))
             IN  [bSuccess |-> r.result, idx |-> -1, cur |-> r.cur,
                  tested |-> <<idx>>]
        ELSE IF dest.net = dnet
        THEN ScanRoutedDevices(
                 D, cur, IF idx = 0 THEN 1 ELSE idx, dest, <<>>)
        ELSE [bSuccess |-> FALSE, idx |-> idx, cur |-> cur, tested |-> <<>>]

(* Routed_Device_GetNext up to its final if: bSuccess, the local idx, the  *)
(* selection, and the slots tested.                                        *)
GetNext_Branches(D, cur, dest, DNET_list, cursor) ==
    LET dnet == DNET_list[1]
        idx == cursor
    IN  IF (idx < 0) \/ (idx >= MAX_NUM_DEVICES)
        THEN [bSuccess |-> FALSE, idx |-> -1, cur |-> cur, tested |-> <<>>]
        ELSE IF dest.net = BACNET_BROADCAST_NETWORK
        THEN LET r == Routed_Device_Address_Lookup(
                          D, cur, idx, dest.len, PtrTo(dest.adr))
             IN  [bSuccess |-> r.result, idx |-> idx + 1, cur |-> r.cur,
                  tested |-> <<idx>>]
        ELSE IF dest.net = 0
        THEN LET r == Routed_Device_Address_Lookup(
                          D, cur, 0, dest.len, PtrTo(dest.adr))
             IN  [bSuccess |-> r.result, idx |-> -1, cur |-> r.cur,
                  tested |-> <<0>>]
        ELSE IF dest.net = dnet
        THEN ScanRoutedDevices(
                 D, cur, IF idx = 0 THEN 1 ELSE idx, dest, <<>>)
        ELSE [bSuccess |-> FALSE, idx |-> idx, cur |-> cur, tested |-> <<>>]

GetNext_NoEndOfTable(D, cur, dest, DNET_list, cursor) ==
    LET b == GetNext_Branches(D, cur, dest, DNET_list, cursor)
    IN  [bSuccess |-> b.bSuccess,
         cursor |-> IF ~b.bSuccess THEN -1 ELSE b.idx,
         cur |-> b.cur,
         advanced |-> b.idx,
         tested |-> b.tested]

(* bool Routed_Device_GetNext(dest, DNET_list, int *cursor) *)
Routed_Device_GetNext(D, cur, dest, DNET_list, cursor) ==
    LET b == GetNext_Branches(D, cur, dest, DNET_list, cursor)
    IN  [bSuccess |-> b.bSuccess,
         cursor |-> IF ~b.bSuccess
                    THEN -1
                    ELSE IF b.idx = MAX_NUM_DEVICES THEN -1 ELSE b.idx,
         cur |-> b.cur,
         advanced |-> b.idx,
         tested |-> b.tested]

Is_Valid_Network_NoVirtualNet(dest_net, DNET_list) ==
    IF dest_net = BACNET_BROADCAST_NETWORK
    THEN TRUE
    ELSE dest_net = 0

(* bool Routed_Device_Is_Valid_Network(uint16_t dest_net, DNET_list) *)
Routed_Device_Is_Valid_Network(dest_net, DNET_list) ==
    LET dnet == DNET_list[1]
    IN  IF dest_net = BACNET_BROADCAST_NETWORK
        THEN TRUE
        ELSE IF dest_net = 0
        THEN TRUE
        ELSE dest_net = dnet

---------------------------------------------------------------------------
(* The for loop of Routed_Device_Instance_To_Index, entered with i *)
RECURSIVE InstanceScan(_, _, _)
InstanceScan(D, Instance_Number, i) ==
    IF i < MAX_NUM_DEVICES
    THEN IF D[i].Object_Instance_Number = Instance_Number
         THEN i
         ELSE InstanceScan(D, Instance_Number, i + 1)
    ELSE 0

(* static uint32_t Routed_Device_Instance_To_Index(Instance_Number) *)
Routed_Device_Instance_To_Index(D, Instance_Number) ==
    InstanceScan(D, Instance_Number, 0)

(* bool Routed_Device_Valid_Object_Instance_Number(uint32_t object_id) *)
Routed_Device_Valid_Object_Instance_Number(D, object_id) ==
    LET i == Routed_Device_Instance_To_Index(D, object_id)
    IN  [cur |-> i, valid |-> (D[i].Object_Instance_Number = object_id)]

---------------------------------------------------------------------------
(* Collaborators of the write path that live outside this file.            *)
(* write_property_type_valid: the decoded value carries the expected tag   *)
write_property_type_valid(value, expected_tag) ==
    value.tag = expected_tag

(* write_property_string_valid: refuses a value that is not a character    *)
(* string or is longer than len_max, accepts a UTF-8 string shorter than   *)
(* len_max; for a string of exactly len_max octets or in another encoding  *)
(* its answer is fixed by neither this file nor the specification, and is  *)
(* the input verdict.                                                      *)
write_property_string_valid(value, len_max, verdict) ==
    IF value.tag # "CHARACTER_STRING"
    THEN FALSE
    ELSE IF Len(value.string) > len_max
    THEN FALSE
    ELSE IF (value.encoding = CHARACTER_UTF8) /\ (Len(value.string) < len_max)
    THEN TRUE
    ELSE verdict

(* The error a failed write reports *)
ValueOutOfRange ==
    [error_class |-> "ERROR_CLASS_PROPERTY",
     error_code |-> "ERROR_CODE_VALUE_OUT_OF_RANGE"]

NoError == [error_class |-> "none", error_code |-> "none"]

Write_Property_Local_StoresDescription(D, cur, wp_data) ==
    LET value == wp_data.value IN
    IF wp_data.len < 0
    THEN [D |-> D, status |-> FALSE, error |-> ValueOutOfRange]
    ELSE IF wp_data.object_property = "PROP_OBJECT_IDENTIFIER"
    THEN IF write_property_type_valid(value, "OBJECT_ID")
         THEN IF value.type = OBJECT_DEVICE
              THEN LET r == Routed_Device_Set_Object_Instance_Number(
                                D, cur, value.instance)
                   IN  IF r.status
                       THEN [D |-> r.D, status |-> TRUE, error |-> NoError]
                       ELSE [D |-> r.D, status |-> FALSE,
                             error |-> ValueOutOfRange]
              ELSE [D |-> D, status |-> FALSE, error |-> ValueOutOfRange]
         ELSE [D |-> D, status |-> FALSE, error |-> ValueOutOfRange]
    ELSE IF wp_data.object_property = "PROP_OBJECT_NAME"
    THEN IF write_property_string_valid(
                value, MAX_DEV_NAME_LEN, wp_data.string_valid)
         THEN [D |-> Routed_Device_Set_Object_Name(
                         D, cur, value.encoding, value.string).D,
               status |-> TRUE, error |-> NoError]
         ELSE [D |-> D, status |-> FALSE, error |-> ValueOutOfRange]
    ELSE IF wp_data.object_property = "PROP_DESCRIPTION"
    THEN [D |-> Routed_Device_Set_Description(D, cur, value.string).D,
          status |-> wp_data.local,
          error |-> IF wp_data.local THEN NoError ELSE ValueOutOfRange]
    ELSE [D |-> D, status |-> wp_data.local,
          error |-> IF wp_data.local THEN NoError ELSE ValueOutOfRange]

(* bool Routed_Device_Write_Property_Local(wp_data)                        *)
(* wp_data.len is what bacapp_decode_application_data returned and         *)
(* wp_data.value the value it decoded; wp_data.local is what               *)
(* Device_Write_Property_Local answers for a property it is handed and     *)
(* wp_data.string_valid what write_property_string_valid answers where     *)
(* its answer is open.                                                     *)
Routed_Device_Write_Property_Local(D, cur, wp_data) ==
    LET value == wp_data.value IN
    IF wp_data.len < 0
    THEN [D |-> D, status |-> FALSE, error |-> ValueOutOfRange]
    ELSE IF wp_data.object_property = "PROP_OBJECT_IDENTIFIER"
    THEN IF write_property_type_valid(value, "OBJECT_ID")
         THEN IF value.type = OBJECT_DEVICE
              THEN LET r == Routed_Device_Set_Object_Instance_Number(
                                D, cur, value.instance)
                   IN  IF r.status
                       THEN [D |-> r.D, status |-> TRUE, error |-> NoError]
                       ELSE [D |-> r.D, status |-> FALSE,
                             error |-> ValueOutOfRange]
              ELSE [D |-> D, status |-> FALSE, error |-> ValueOutOfRange]
         ELSE [D |-> D, status |-> FALSE, error |-> ValueOutOfRange]
    ELSE IF wp_data.object_property = "PROP_OBJECT_NAME"
    THEN IF write_property_string_valid(
                value, MAX_DEV_NAME_LEN, wp_data.string_valid)
         THEN [D |-> Routed_Device_Set_Object_Name(
                         D, cur, value.encoding, value.string).D,
               status |-> TRUE, error |-> NoError]
         ELSE [D |-> D, status |-> FALSE, error |-> ValueOutOfRange]
    ELSE [D |-> D, status |-> wp_data.local,
          error |-> IF wp_data.local THEN NoError ELSE ValueOutOfRange]

(* int Routed_Device_Read_Property_Local(rpdata): what is encoded *)
Routed_Device_Read_Property_Local(D, cur, rpdata) ==
    LET pDev == D[cur] IN
    IF rpdata.null \/ rpdata.application_data_len = 0
    THEN [apdu_len |-> 0, encoded |-> <<>>]
    ELSE IF rpdata.object_property = "PROP_OBJECT_IDENTIFIER"
    THEN [apdu_len |-> 5,
          encoded |-> <<OBJECT_DEVICE, pDev.Object_Instance_Number>>]
    ELSE IF rpdata.object_property = "PROP_OBJECT_NAME"
    THEN [apdu_len |-> 2 + Len(pDev.Object_Name),
          encoded |-> <<pDev.Object_Name>>]
    ELSE IF rpdata.object_property = "PROP_DESCRIPTION"
    THEN [apdu_len |-> 2 + Len(pDev.Description),
          encoded |-> <<pDev.Description>>]
    ELSE IF rpdata.object_property = "PROP_DATABASE_REVISION"
    THEN [apdu_len |-> 2, encoded |-> <<pDev.Database_Revision>>]
    ELSE [apdu_len |-> rpdata.local, encoded |-> <<"Device_Read_Property_Local">>]

(* The length reject_encode_apdu reports for the Reject PDU it encodes *)
RejectApduLen == 3

Service_Approval_DccAllowed(cur, service, apdu_buff_null) ==
    IF service = "SERVICE_SUPPORTED_REINITIALIZE_DEVICE"
    THEN IF cur > 0
         THEN IF ~apdu_buff_null THEN RejectApduLen ELSE 1
         ELSE 0
    ELSE 0

(* int Routed_Device_Service_Approval(service, service_argument,           *)
(*                                    apdu_buff, invoke_id)                *)
Routed_Device_Service_Approval(cur, service, apdu_buff_null) ==
    IF service = "SERVICE_SUPPORTED_REINITIALIZE_DEVICE"
    THEN IF cur > 0
         THEN IF ~apdu_buff_null THEN RejectApduLen ELSE 1
         ELSE 0
    ELSE IF service = "SERVICE_SUPPORTED_DEVICE_COMMUNICATION_CONTROL"
    THEN IF cur > 0
         THEN IF ~apdu_buff_null THEN RejectApduLen ELSE 1
         ELSE 0
    ELSE 0

---------------------------------------------------------------------------
(* The state machine.                                                      *)

(* The gateway's own virtual network number, a second downstream network   *)
(* and a network that is not the gateway's                                 *)
VirtualNet == 10

SecondNet == 20

ForeignNet == 30

(* DNET_list: the reachable networks, terminated with -1 *)
DNetLists == {<<VirtualNet, -1>>, <<VirtualNet, SecondNet, -1>>}

(* The entries of a DNET_list, up to its -1 terminator *)
RECURSIVE DNetEntries(_, _)
DNetEntries(DNET_list, i) ==
    IF (i > Len(DNET_list)) \/ (DNET_list[i] = -1)
    THEN {}
    ELSE {DNET_list[i]} \cup DNetEntries(DNET_list, i + 1)

(* Destination networks asked about: local, broadcast, the two downstream  *)
(* networks and one that is in no list                                     *)
QueryNets ==
    {0, VirtualNet, SecondNet, ForeignNet, BACNET_BROADCAST_NETWORK}

Dest(net, len, adr) == [net |-> net, len |-> len, adr |-> adr]

(* Destination MAC addresses: the MAC broadcast (length 0), a one-octet    *)
(* prefix and full-length addresses                                        *)
DestMacs ==
    {<<0, ZeroMac>>, <<1, MacA>>, <<MAX_MAC_LEN, MacA>>,
     <<MAX_MAC_LEN, MacB>>}

DestNets == {0, VirtualNet, ForeignNet, BACNET_BROADCAST_NETWORK}

Dests == {Dest(n, m[1], m[2]) : n \in DestNets, m \in DestMacs}

Msgs == {"A", "B"}

IdleMsg ==
    [st |-> "idle", dest |-> Dest(0, 0, ZeroMac), start |-> -1,
     cursor |-> -1, hits |-> <<>>, matched |-> -1, calls |-> 0]

Init ==
    /\ Devices = [i \in Slots |-> ZeroDevice]
    /\ Num_Managed_Devices = 0
    /\ iCurrent_Device_Idx = 0
    /\ msg = [m \in Msgs |-> IdleMsg]
    /\ call = [fn |-> "none"]
    /\ ret = 0

(* Add_Routed_Device called *)
Call_Add_Routed_Device(Object_Instance, sObject_Name, sDescription) ==
    LET r == Add_Routed_Device(
                 Devices, Num_Managed_Devices, iCurrent_Device_Idx,
                 Object_Instance, sObject_Name, sDescription)
    IN  /\ Devices' = r.D
        /\ Num_Managed_Devices' = r.num
        /\ iCurrent_Device_Idx' = r.cur
        /\ call' = [fn |-> "Add_Routed_Device",
                    Object_Instance |-> Object_Instance,
                    sObject_Name |-> sObject_Name,
                    sDescription |-> sDescription,
                    num |-> Num_Managed_Devices,
                    ctx |-> iCurrent_Device_Idx]
        /\ ret' = r.ret
        /\ UNCHANGED msg

(* Get_Routed_Device_Object called *)
Call_Get_Routed_Device_Object(idx) ==
    LET r == Get_Routed_Device_Object(iCurrent_Device_Idx, idx)
    IN  /\ iCurrent_Device_Idx' = r.cur
        /\ call' = [fn |-> "Get_Routed_Device_Object", idx |-> idx,
                    ctx |-> iCurrent_Device_Idx]
        /\ ret' = r.ret
        /\ UNCHANGED <<Devices, Num_Managed_Devices, msg>>

(* Get_Routed_Device_Address called; with a non-NULL store the caller      *)
(* writes that MAC address through the pointer it got, which start-up      *)
(* code does for the devices it added.                                     *)
Call_Get_Routed_Device_Address(idx, store) ==
    LET r == Get_Routed_Device_Address(iCurrent_Device_Idx, idx)
    IN  /\ store.null \/ (~r.ret.null /\ r.ret.at < Num_Managed_Devices)
        /\ iCurrent_Device_Idx' = r.cur
        /\ Devices' = IF store.null
                      THEN Devices
                      ELSE [Devices EXCEPT ![r.ret.at].adr = store.adr]
        /\ call' = [fn |-> "Get_Routed_Device_Address", idx |-> idx,
                    store |-> store, ctx |-> iCurrent_Device_Idx]
        /\ ret' = r.ret
        /\ UNCHANGED <<Num_Managed_Devices, msg>>

(* Routed_Device_Address_Lookup called *)
Call_Routed_Device_Address_Lookup(idx, dlen, dadr) ==
    LET r == Routed_Device_Address_Lookup(
                 Devices, iCurrent_Device_Idx, idx, dlen, dadr)
    IN  /\ iCurrent_Device_Idx' = r.cur
        /\ call' = [fn |-> "Routed_Device_Address_Lookup", idx |-> idx,
                    dlen |-> dlen, dadr |-> dadr,
                    ctx |-> iCurrent_Device_Idx]
        /\ ret' = r.result
        /\ UNCHANGED <<Devices, Num_Managed_Devices, msg>>

(* Routed_Device_Valid_Object_Instance_Number called *)
Call_Routed_Device_Valid_Object_Instance_Number(object_id) ==
    LET r == Routed_Device_Valid_Object_Instance_Number(Devices, object_id)
    IN  /\ iCurrent_Device_Idx' = r.cur
        /\ call' = [fn |-> "Routed_Device_Valid_Object_Instance_Number",
                    object_id |-> object_id, ctx |-> iCurrent_Device_Idx]
        /\ ret' = r.valid
        /\ UNCHANGED <<Devices, Num_Managed_Devices, msg>>

(* Routed_Device_Is_Valid_Network called *)
Call_Routed_Device_Is_Valid_Network(dest_net, DNET_list) ==
    /\ call' = [fn |-> "Routed_Device_Is_Valid_Network",
                dest_net |-> dest_net, DNET_list |-> DNET_list,
                ctx |-> iCurrent_Device_Idx]
    /\ ret' = Routed_Device_Is_Valid_Network(dest_net, DNET_list)
    /\ UNCHANGED <<Devices, Num_Managed_Devices, iCurrent_Device_Idx, msg>>

(* The network layer takes up inbound message m for destination dest and   *)
(* sets the cursor it will hand to Routed_Device_GetNext (0 to start at    *)
(* the gateway).                                                           *)
Receive(m, dest, start) ==
    /\ msg[m].st # "loop"
    /\ msg' = [msg EXCEPT ![m] =
                  [st |-> "loop", dest |-> dest, start |-> start,
                   cursor |-> start, hits |-> <<>>, matched |-> -1,
                   calls |-> 0]]
    /\ call' = [fn |-> "Receive", m |-> m]
    /\ ret' = 0
    /\ UNCHANGED <<Devices, Num_Managed_Devices, iCurrent_Device_Idx>>

(* Routed_Device_GetNext called for message m with m's cursor; the caller  *)
(* goes on while the cursor it gets back is not -1.                        *)
Call_Routed_Device_GetNext(m, DNET_list) ==
    LET r == Routed_Device_GetNext(
                 Devices, iCurrent_Device_Idx, msg[m].dest, DNET_list,
                 msg[m].cursor)
        \* the slot whose address test made the call return true
        slot == IF r.bSuccess THEN r.tested[Len(r.tested)] ELSE -1
    IN  /\ msg[m].st = "loop"
        /\ iCurrent_Device_Idx' = r.cur
        /\ msg' = [msg EXCEPT ![m] =
                      [@ EXCEPT
                          !.st = IF r.cursor = -1 THEN "done" ELSE "loop",
                          !.cursor = r.cursor,
                          !.hits = IF r.bSuccess
                                   THEN Append(@, slot) ELSE @,
                          !.matched = slot,
                          !.calls = @ + 1]]
        /\ call' = [fn |-> "Routed_Device_GetNext", m |-> m,
                    dest |-> msg[m].dest, DNET_list |-> DNET_list,
                    cursor |-> msg[m].cursor, ctx |-> iCurrent_Device_Idx]
        /\ ret' = [bSuccess |-> r.bSuccess, cursor |-> r.cursor,
                   advanced |-> r.advanced, tested |-> r.tested]
        /\ UNCHANGED <<Devices, Num_Managed_Devices>>

(* Routed_Device_Write_Property_Local called for the device message m was  *)
(* matched to, or (m = "local") by the write handler for the device that   *)
(* Routed_Device_Valid_Object_Instance_Number or an add selected           *)
Call_Routed_Device_Write_Property_Local(m, wp_data) ==
    LET r == Routed_Device_Write_Property_Local(
                 Devices, iCurrent_Device_Idx, wp_data)
    IN  /\ (m \in Msgs) => (msg[m].matched # -1)
        /\ Devices[iCurrent_Device_Idx].Database_Revision < MaxRevision
        /\ Devices' = r.D
        /\ call' = [fn |-> "Routed_Device_Write_Property_Local", m |-> m,
                    wp_data |-> wp_data, ctx |-> iCurrent_Device_Idx]
        /\ ret' = [status |-> r.status, error |-> r.error]
        /\ UNCHANGED <<Num_Managed_Devices, iCurrent_Device_Idx, msg>>

(* Routed_Device_Read_Property_Local called for the device message m was   *)
(* matched to, or (m = "local") by the read handler for the selected       *)
(* device                                                                  *)
Call_Routed_Device_Read_Property_Local(m, rpdata) ==
    LET r == Routed_Device_Read_Property_Local(
                 Devices, iCurrent_Device_Idx, rpdata)
    IN  /\ (m \in Msgs) => (msg[m].matched # -1)
        /\ call' = [fn |-> "Routed_Device_Read_Property_Local", m |-> m,
                    rpdata |-> rpdata, ctx |-> iCurrent_Device_Idx]
        /\ ret' = r
        /\ UNCHANGED <<Devices, Num_Managed_Devices, iCurrent_Device_Idx,
                       msg>>

(* Routed_Device_Service_Approval called for the device message m was      *)
(* matched to, or (m = "local") for the selected device                    *)
Call_Routed_Device_Service_Approval(m, service, apdu_buff_null) ==
    /\ (m \in Msgs) => (msg[m].matched # -1)
    /\ call' = [fn |-> "Routed_Device_Service_Approval", m |-> m,
                service |-> service, apdu_buff_null |-> apdu_buff_null,
                ctx |-> iCurrent_Device_Idx]
    /\ ret' = Routed_Device_Service_Approval(
                  iCurrent_Device_Idx, service, apdu_buff_null)
    /\ UNCHANGED <<Devices, Num_Managed_Devices, iCurrent_Device_Idx, msg>>

(* Routed_Device_Set_Object_Instance_Number called for the selected device *)
Call_Routed_Device_Set_Object_Instance_Number(object_id) ==
    LET r == Routed_Device_Set_Object_Instance_Number(
                 Devices, iCurrent_Device_Idx, object_id)
    IN  /\ Devices[iCurrent_Device_Idx].Database_Revision < MaxRevision
        /\ Devices' = r.D
        /\ call' = [fn |-> "Routed_Device_Set_Object_Instance_Number",
                    object_id |-> object_id, ctx |-> iCurrent_Device_Idx]
        /\ ret' = r.status
        /\ UNCHANGED <<Num_Managed_Devices, iCurrent_Device_Idx, msg>>

(* Routed_Device_Set_Object_Name called for the selected device *)
Call_Routed_Device_Set_Object_Name(encoding, value) ==
    LET r == Routed_Device_Set_Object_Name(
                 Devices, iCurrent_Device_Idx, encoding, value)
    IN  /\ Devices[iCurrent_Device_Idx].Database_Revision < MaxRevision
        /\ Devices' = r.D
        /\ call' = [fn |-> "Routed_Device_Set_Object_Name",
                    encoding |-> encoding, value |-> value,
                    ctx |-> iCurrent_Device_Idx]
        /\ ret' = r.status
        /\ UNCHANGED <<Num_Managed_Devices, iCurrent_Device_Idx, msg>>

(* Routed_Device_Set_Description called for the selected device *)
Call_Routed_Device_Set_Description(value) ==
    LET r == Routed_Device_Set_Description(
                 Devices, iCurrent_Device_Idx, value)
    IN  /\ Devices' = r.D
        /\ call' = [fn |-> "Routed_Device_Set_Description",
                    value |-> value, ctx |-> iCurrent_Device_Idx]
        /\ ret' = r.status
        /\ UNCHANGED <<Num_Managed_Devices, iCurrent_Device_Idx, msg>>

---------------------------------------------------------------------------
(* Inputs *)
AddInstances == {100}

AddNames == {NullName}

AddDescriptions == {NullDescr}

StoreMacs == {NullPtr, PtrTo(MacB)}

LookupMacs == {NullPtr, PtrTo(ZeroMac), PtrTo(MacA), PtrTo(MacB)}

(* Table set-up and the context-setting lookups, called in any order *)
Next ==
    \/ \E inst \in AddInstances, name \in AddNames, descr \in AddDescriptions :
           Call_Add_Routed_Device(inst, name, descr)
    \/ \E idx \in -2 .. MAX_NUM_DEVICES :
           Call_Get_Routed_Device_Object(idx)
    \/ \E idx \in -2 .. MAX_NUM_DEVICES, store \in StoreMacs :
           Call_Get_Routed_Device_Address(idx, store)
    \/ \E idx \in -1 .. MAX_NUM_DEVICES, dlen \in 0 .. MAX_MAC_LEN,
          dadr \in LookupMacs :
           Call_Routed_Device_Address_Lookup(idx, dlen, dadr)
    \/ \E object_id \in AddInstances \cup {0} :
           Call_Routed_Device_Valid_Object_Instance_Number(object_id)
    \/ \E dest_net \in QueryNets, DNET_list \in DNetLists :
           Call_Routed_Device_Is_Valid_Network(dest_net, DNET_list)

Spec == Init /\ [][Next]_vars

---------------------------------------------------------------------------
(* Routing of one inbound message at a time over a table that start-up     *)
(* code fills before the first message arrives: the caller's GetNext loop, *)
(* from any cursor.                                                        *)
NextRoute ==
    \/ /\ msg["A"].st = "idle"
       /\ \E inst \in AddInstances :
              Call_Add_Routed_Device(inst, NullName, NullDescr)
    \/ /\ msg["A"].st = "idle"
       /\ \E idx \in Slots : Call_Get_Routed_Device_Address(idx, PtrTo(MacB))
    \/ /\ Num_Managed_Devices >= 1
       /\ \E dest \in Dests, start \in -1 .. MAX_NUM_DEVICES :
              Receive("A", dest, start)
    \/ \E DNET_list \in DNetLists :
           Call_Routed_Device_GetNext("A", DNET_list)

SpecRoute == Init /\ [][NextRoute]_vars

---------------------------------------------------------------------------
(* Dispatch with no run-to-completion: after a successful GetNext for      *)
(* message A its property write or service approval is dispatched, while   *)
(* the GetNext loop of a second message B may run in between.              *)
ObjectIdValue(type, instance) ==
    [tag |-> "OBJECT_ID", type |-> type, instance |-> instance,
     encoding |-> CHARACTER_UTF8, string |-> ""]

WriteObjectId(instance) ==
    [object_property |-> "PROP_OBJECT_IDENTIFIER", len |-> 5,
     value |-> ObjectIdValue(OBJECT_DEVICE, instance), local |-> FALSE,
     string_valid |-> FALSE]

(* Message A is addressed to the gateway or to the routed devices, message *)
(* B is a broadcast; both carry the MAC broadcast (length 0).              *)
DispatchDests(m) ==
    IF m = "A"
    THEN {Dest(0, 0, ZeroMac), Dest(VirtualNet, 0, ZeroMac)}
    ELSE {Dest(BACNET_BROADCAST_NETWORK, 0, ZeroMac)}

AllIdle == \A m \in Msgs : msg[m].st = "idle"

NextDispatch ==
    \/ /\ AllIdle
       /\ \E inst \in AddInstances :
              Call_Add_Routed_Device(inst, NullName, NullDescr)
    \/ /\ Num_Managed_Devices >= 1
       /\ \E m \in Msgs : \E dest \in DispatchDests(m) : Receive(m, dest, 0)
    \/ \E m \in Msgs : Call_Routed_Device_GetNext(m, <<VirtualNet, -1>>)
    \/ Call_Routed_Device_Write_Property_Local("A", WriteObjectId(150))
    \/ \E service \in {"SERVICE_SUPPORTED_REINITIALIZE_DEVICE",
                        "SERVICE_SUPPORTED_READ_PROPERTY"} :
           Call_Routed_Device_Service_Approval("A", service, TRUE)

SpecDispatch == Init /\ [][NextDispatch]_vars

---------------------------------------------------------------------------
(* Run-to-completion processing: the network layer takes up the next       *)
(* inbound message only when the GetNext loop of the one before it, and    *)
(* everything dispatched for its matches, has finished; the finished       *)
(* message is dropped.                                                     *)
Receive_RunToCompletion(m, dest, start) ==
    /\ \A o \in Msgs : msg[o].st # "loop"
    /\ msg' = [o \in Msgs |->
                  IF o = m
                  THEN [st |-> "loop", dest |-> dest, start |-> start,
                        cursor |-> start, hits |-> <<>>, matched |-> -1,
                        calls |-> 0]
                  ELSE IdleMsg]
    /\ call' = [fn |-> "Receive", m |-> m]
    /\ ret' = 0
    /\ UNCHANGED <<Devices, Num_Managed_Devices, iCurrent_Device_Idx>>

(* A read request for one property, with room for the reply *)
ReadProp(object_property) ==
    [null |-> FALSE, application_data_len |-> 16,
     object_property |-> object_property, local |-> 0]

ReadProps ==
    {ReadProp("PROP_OBJECT_IDENTIFIER"), ReadProp("PROP_DATABASE_REVISION")}

Services ==
    {"SERVICE_SUPPORTED_REINITIALIZE_DEVICE",
     "SERVICE_SUPPORTED_DEVICE_COMMUNICATION_CONTROL",
     "SERVICE_SUPPORTED_READ_PROPERTY"}

NextRunToCompletion ==
    \/ /\ AllIdle
       /\ \E inst \in AddInstances :
              Call_Add_Routed_Device(inst, NullName, NullDescr)
    \/ /\ Num_Managed_Devices >= 1
       /\ \E m \in Msgs : \E dest \in DispatchDests(m) :
              Receive_RunToCompletion(m, dest, 0)
    \/ \E m \in Msgs : Call_Routed_Device_GetNext(m, <<VirtualNet, -1>>)
    \/ \E m \in Msgs :
           Call_Routed_Device_Write_Property_Local(m, WriteObjectId(150))
    \/ \E m \in Msgs, rpdata \in ReadProps :
           Call_Routed_Device_Read_Property_Local(m, rpdata)
    \/ \E m \in Msgs, service \in Services, apdu_buff_null \in BOOLEAN :
           Call_Routed_Device_Service_Approval(m, service, apdu_buff_null)

SpecRunToCompletion == Init /\ [][NextRunToCompletion]_vars

---------------------------------------------------------------------------
(* Adds and object-identifier writes in any order: each add selects the    *)
(* device it added, Routed_Device_Valid_Object_Instance_Number selects a   *)
(* device by its instance number, and a write of the object identifier     *)
(* reaches the selected device.                                            *)
IdentifierInstances == {100, 200}

(* What start-up code adds: a device with no name, a device with a name *)
IdentifierAdds ==
    {<<100, NullName>>, <<200, NameOf(CHARACTER_UTF8, "dev")>>}

WrittenInstances == {100, 150}

NextIdentifier ==
    \/ \E add \in IdentifierAdds :
           Call_Add_Routed_Device(add[1], add[2], NullDescr)
    \/ \E instance \in WrittenInstances :
           Call_Routed_Device_Write_Property_Local(
               "local", WriteObjectId(instance))
    \/ \E object_id \in IdentifierInstances \cup WrittenInstances :
           Call_Routed_Device_Valid_Object_Instance_Number(object_id)

SpecIdentifier == Init /\ [][NextIdentifier]_vars

---------------------------------------------------------------------------
(* Property requests and the setters behind them, for the gateway and the  *)
(* first routed device: the write handler is given payloads that decode    *)
(* or not and values that pass or fail each check, the read handler the    *)
(* properties served from the record; the lookups, a broadcast walk of     *)
(* the table and service approval run in between.                          *)

(* A string of n octets *)
RECURSIVE Pad(_)
Pad(n) == IF n = 0 THEN "" ELSE "x" \o Pad(n - 1)

(* An encoding that is not CHARACTER_UTF8, an object type that is not      *)
(* OBJECT_DEVICE                                                           *)
OtherEncoding == CHARACTER_UTF8 + 1

OtherObjectType == OBJECT_DEVICE + 1

StringValue(encoding, string) ==
    [tag |-> "CHARACTER_STRING", type |-> OBJECT_DEVICE, instance |-> 0,
     encoding |-> encoding, string |-> string]

WriteName(encoding, string, string_valid) ==
    [object_property |-> "PROP_OBJECT_NAME", len |-> 2 + Len(string),
     value |-> StringValue(encoding, string), local |-> FALSE,
     string_valid |-> string_valid]

WriteOther(object_property, local) ==
    [object_property |-> object_property, len |-> 3,
     value |-> StringValue(CHARACTER_UTF8, "d"), local |-> local,
     string_valid |-> FALSE]

PropertyWrites ==
    {WriteObjectId(150),
     [WriteObjectId(150) EXCEPT !.len = -1],
     [WriteObjectId(150) EXCEPT !.value = StringValue(CHARACTER_UTF8, "dev")],
     [WriteObjectId(150) EXCEPT !.value = ObjectIdValue(OtherObjectType, 150)],
     WriteObjectId(BACNET_MAX_INSTANCE + 1),
     WriteName(CHARACTER_UTF8, Pad(MAX_DEV_NAME_LEN - 1), FALSE),
     [WriteName(CHARACTER_UTF8, "dev", FALSE) EXCEPT !.len = -1],
     [WriteName(CHARACTER_UTF8, "dev", FALSE)
         EXCEPT !.value = ObjectIdValue(OBJECT_DEVICE, 150)],
     WriteName(CHARACTER_UTF8, Pad(MAX_DEV_NAME_LEN), TRUE),
     WriteName(CHARACTER_UTF8, Pad(MAX_DEV_NAME_LEN), FALSE),
     WriteName(CHARACTER_UTF8, Pad(MAX_DEV_NAME_LEN + 1), TRUE),
     WriteName(OtherEncoding, "dev", TRUE),
     WriteName(OtherEncoding, "dev", FALSE),
     WriteOther("PROP_DESCRIPTION", TRUE),
     WriteOther("PROP_DESCRIPTION", FALSE),
     WriteOther("PROP_DATABASE_REVISION", TRUE)}

PropertyReads ==
    {ReadProp("PROP_OBJECT_IDENTIFIER"), ReadProp("PROP_OBJECT_NAME"),
     ReadProp("PROP_DESCRIPTION"), ReadProp("PROP_DATABASE_REVISION")}

SetInstances == {150, BACNET_MAX_INSTANCE + 1}

SetNames ==
    {<<CHARACTER_UTF8, Pad(MAX_DEV_NAME_LEN - 1)>>,
     <<CHARACTER_UTF8, Pad(MAX_DEV_NAME_LEN)>>,
     <<OtherEncoding, "dev">>}

SetDescriptions == {Pad(MAX_DEV_DESC_LEN - 1), Pad(MAX_DEV_DESC_LEN)}

(* The devices the property requests are for *)
PropertySlots == {0, 1}

NextProperty ==
    \/ /\ msg["A"].st # "loop"
       /\ Call_Add_Routed_Device(100, NullName, NullDescr)
    \/ /\ msg["A"].st # "loop"
       /\ \E idx \in PropertySlots \cup {-1} :
              /\ idx < Num_Managed_Devices
              /\ \/ Call_Get_Routed_Device_Object(idx)
                 \/ Call_Get_Routed_Device_Address(idx, NullPtr)
    \/ /\ msg["A"].st # "loop"
       /\ \E idx \in PropertySlots :
              /\ idx < Num_Managed_Devices
              /\ Call_Routed_Device_Address_Lookup(idx, 0, NullPtr)
    \/ /\ msg["A"].st # "loop"
       /\ Call_Routed_Device_Valid_Object_Instance_Number(150)
    \/ /\ msg["A"].st # "loop"
       /\ Call_Routed_Device_Is_Valid_Network(VirtualNet, <<VirtualNet, -1>>)
    \/ /\ Num_Managed_Devices = MAX_NUM_DEVICES
       /\ Receive("A", Dest(BACNET_BROADCAST_NETWORK, 0, ZeroMac), 0)
    \/ Call_Routed_Device_GetNext("A", <<VirtualNet, -1>>)
    \/ /\ msg["A"].st # "loop"
       /\ iCurrent_Device_Idx \in PropertySlots
       /\ iCurrent_Device_Idx < Num_Managed_Devices
       /\ \/ \E wp_data \in PropertyWrites :
                Call_Routed_Device_Write_Property_Local("local", wp_data)
          \/ \E rpdata \in PropertyReads :
                Call_Routed_Device_Read_Property_Local("local", rpdata)
          \/ \E object_id \in SetInstances :
                Call_Routed_Device_Set_Object_Instance_Number(object_id)
          \/ \E name \in SetNames :
                Call_Routed_Device_Set_Object_Name(name[1], name[2])
          \/ \E value \in SetDescriptions :
                Call_Routed_Device_Set_Description(value)
          \/ Call_Routed_Device_Service_Approval(
                 "local", "SERVICE_SUPPORTED_DEVICE_COMMUNICATION_CONTROL",
                 TRUE)

SpecProperty == Init /\ [][NextProperty]_vars

---------------------------------------------------------------------------
(* The router's handling of one inbound message: it asks whether the       *)
(* destination network is one of its own and walks the table with          *)
(* GetNext, from any cursor, for every destination network and both        *)
(* reachable-network lists.                                                *)
ReachableDests ==
    {Dest(n, m[1], m[2]) :
        n \in QueryNets, m \in {<<0, ZeroMac>>, <<MAX_MAC_LEN, MacB>>}}

NextReachable ==
    \/ /\ msg["A"].st = "idle"
       /\ Call_Add_Routed_Device(100, NullName, NullDescr)
    \/ /\ msg["A"].st = "idle"
       /\ \E idx \in Slots : Call_Get_Routed_Device_Address(idx, PtrTo(MacB))
    \/ /\ Num_Managed_Devices >= 1
       /\ \E dest \in ReachableDests, start \in -1 .. MAX_NUM_DEVICES :
              Receive("A", dest, start)
    \/ /\ msg["A"].st = "loop"
       /\ msg["A"].calls = 0
       /\ \E DNET_list \in DNetLists :
              Call_Routed_Device_Is_Valid_Network(
                  msg["A"].dest.net, DNET_list)
    \/ \E DNET_list \in DNetLists :
           Call_Routed_Device_GetNext("A", DNET_list)

SpecReachable == Init /\ [][NextReachable]_vars

---------------------------------------------------------------------------
(* Vocabulary of the properties                                            *)

(* Slot i holds a record that was added *)
Occupied(i) == i \in 0 .. (Num_Managed_Devices - 1)

(* The stored address of slot i agrees with the destination MAC on its     *)
(* first dlen octets (every slot does when dlen is 0)                      *)
SamePrefix(i, dlen, adr) ==
    \A k \in 0 .. (dlen - 1) : Devices[i].adr[k] = adr[k]

(* The ascending sequence of the members of a set of slots *)
RECURSIVE Ascending(_)
Ascending(S) ==
    IF S = {}
    THEN <<>>
    ELSE LET lo == CHOOSE x \in S : \A y \in S : x <= y
         IN  <<lo>> \o Ascending(S \ {lo})

IsGetNext == call.fn = "Routed_Device_GetNext"

---------------------------------------------------------------------------
(* C1: the number of occupied slots never exceeds MAX_NUM_DEVICES, and an  *)
(* add issued on a full table returns UINT16_MAX and leaves the table      *)
(* size, every record and the selection unchanged.                         *)
C1_AddBeyondCapacityRejected ==
    /\ [](Num_Managed_Devices <= MAX_NUM_DEVICES)
    /\ [][(call'.fn = "Add_Routed_Device"
             /\ Num_Managed_Devices = MAX_NUM_DEVICES)
          => (/\ ret' = UINT16_MAX
              /\ Devices' = Devices
              /\ Num_Managed_Devices' = Num_Managed_Devices
              /\ iCurrent_Device_Idx' = iCurrent_Device_Idx)]_vars

C1_Witness ==
    /\ call.fn = "Add_Routed_Device"
    /\ call.num = MAX_NUM_DEVICES
    /\ ret = UINT16_MAX
    /\ Num_Managed_Devices = MAX_NUM_DEVICES

(* C2: once the table has an entry, the selection names an occupied slot   *)
(* (an index below the number of records added).                           *)
C2_ContextOccupied ==
    (Num_Managed_Devices >= 1) => Occupied(iCurrent_Device_Idx)

(* C3: for a broadcast-network destination the caller's loop from cursor 0 *)
(* matches every occupied slot once, in ascending order, and no other.     *)
(* Stated for the MAC broadcast (destination length 0), which every        *)
(* record's address matches, so that no address mismatch ends the sweep.   *)
C3_BroadcastVisitsOccupiedOnce ==
    \A m \in Msgs :
        (/\ msg[m].st = "done"
         /\ msg[m].start = 0
         /\ msg[m].dest.net = BACNET_BROADCAST_NETWORK
         /\ msg[m].dest.len = 0)
        => (msg[m].hits = Ascending({i \in Slots : Occupied(i)}))

(* C4: on the gateway's virtual network GetNext never matches or selects   *)
(* slot 0, and the loop from cursor 0 matches exactly the occupied slots   *)
(* 1..N-1 whose stored address matches, ascending, each once.              *)
C4_VirtualNetSkipsGateway ==
    /\ (IsGetNext /\ call.dest.net = call.DNET_list[1])
       => (/\ \A k \in 1 .. Len(ret.tested) : ret.tested[k] # 0
           /\ (ret.bSuccess => iCurrent_Device_Idx # 0)
           /\ (iCurrent_Device_Idx = 0 => call.ctx = 0))
    /\ \A m \in Msgs :
        (/\ msg[m].st = "done"
         /\ msg[m].start = 0
         /\ msg[m].dest.net = VirtualNet)
        => (msg[m].hits =
               Ascending({i \in Slots :
                             /\ i >= 1
                             /\ Occupied(i)
                             /\ SamePrefix(i, msg[m].dest.len,
                                           msg[m].dest.adr)}))

(* C5: for a destination with network number 0 and an in-range cursor,     *)
(* GetNext tests slot 0 only, returns the result of that test, selects     *)
(* slot 0 or nothing, and always returns the cursor -1.                    *)
C5_LocalNetTestsGatewayOnly ==
    (IsGetNext /\ call.dest.net = 0 /\ call.cursor \in Slots)
    => (/\ ret.tested = <<0>>
        /\ ret.bSuccess = SamePrefix(0, call.dest.len, call.dest.adr)
        /\ ret.cursor = -1
        /\ iCurrent_Device_Idx = IF ret.bSuccess THEN 0 ELSE call.ctx)

C5_Witness ==
    /\ IsGetNext
    /\ call.dest.net = 0
    /\ call.cursor = MAX_NUM_DEVICES - 1
    /\ ~ret.bSuccess
    /\ ret.cursor = -1
    /\ call.ctx # 0

(* C6 as claimed: false gives the cursor -1; an advanced cursor equal to   *)
(* the capacity gives -1; in every other case the cursor returned is a     *)
(* valid slot index.                                                       *)
C6_CursorSentinelOrSlot_Claimed ==
    IsGetNext
    => IF ~ret.bSuccess
       THEN ret.cursor = -1
       ELSE IF ret.advanced = MAX_NUM_DEVICES
            THEN ret.cursor = -1
            ELSE ret.cursor \in Slots

(* C6 amended: as claimed, except that a match for a destination with      *)
(* network number 0 also returns -1; the cursor returned is always -1 or   *)
(* a valid slot index, and the caller's loop goes on exactly while it is   *)
(* not -1.                                                                 *)
C6_CursorSentinelOrSlot ==
    IsGetNext
    => /\ ret.cursor \in (Slots \cup {-1})
       /\ IF ~ret.bSuccess
          THEN ret.cursor = -1
          ELSE IF ret.advanced = MAX_NUM_DEVICES \/ call.dest.net = 0
               THEN ret.cursor = -1
               ELSE ret.cursor \in Slots /\ ret.cursor = ret.advanced
       /\ msg[call.m].cursor = ret.cursor
       /\ (msg[call.m].st = "done") = (ret.cursor = -1)

C6_Witness ==
    /\ IsGetNext
    /\ ret.bSuccess
    /\ ret.advanced = MAX_NUM_DEVICES
    /\ ret.cursor = -1
    /\ msg[call.m].st = "done"

C8_LastOccupiedMatchEndsLoop ==
    (/\ IsGetNext
     /\ call.dest.net = call.DNET_list[1]
     /\ ret.bSuccess
     /\ Num_Managed_Devices >= 2
     /\ iCurrent_Device_Idx = Num_Managed_Devices - 1)
    => ret.cursor = -1

(* C9: the address matcher returns true and selects the tested slot iff    *)
(* the slot is in range and the destination length is 0, or the octet      *)
(* buffer is present and the first dlen stored octets equal it; in every   *)
(* other case it returns false and the selection is unchanged.             *)
C9_AddressLookup ==
    (call.fn = "Routed_Device_Address_Lookup")
    => LET match ==
               /\ call.idx \in Slots
               /\ \/ call.dlen = 0
                  \/ /\ ~call.dadr.null
                     /\ SamePrefix(call.idx, call.dlen, call.dadr.adr)
       IN  /\ ret = match
           /\ iCurrent_Device_Idx = IF match THEN call.idx ELSE call.ctx

C9_Witness ==
    /\ call.fn = "Routed_Device_Address_Lookup"
    /\ call.idx \in Slots
    /\ call.dlen = 1
    /\ call.dadr = PtrTo(MacA)
    /\ Devices[call.idx].adr = MacB
    /\ ret = TRUE
    /\ iCurrent_Device_Idx = call.idx
    /\ call.ctx # call.idx


(* C10: a property write or a service approval dispatched for message A    *)
(* acts on the slot the selection names when it is dispatched, whatever    *)
(* slot A's own GetNext matched: the write changes that record and no      *)
(* other, the approval is decided on that index.  After an interleaved     *)
(* GetNext of message B the two differ (C10_Witness), so A's write         *)
(* mutates a record other than the one A matched.                          *)
C10_DispatchActsOnSelection ==
    [][/\ (call'.fn = "Routed_Device_Write_Property_Local")
          => (/\ \A i \in Slots \ {iCurrent_Device_Idx} :
                    Devices'[i] = Devices[i]
              /\ ret'.status
                 => (/\ Devices'[iCurrent_Device_Idx].Object_Instance_Number
                           = call'.wp_data.value.instance
                     /\ Devices'[iCurrent_Device_Idx].Database_Revision
                           = Devices[iCurrent_Device_Idx].Database_Revision
                             + 1))
       /\ (call'.fn = "Routed_Device_Service_Approval")
          => ((ret' # 0) =
                 (/\ call'.service \in
                        {"SERVICE_SUPPORTED_REINITIALIZE_DEVICE",
                         "SERVICE_SUPPORTED_DEVICE_COMMUNICATION_CONTROL"}
                  /\ iCurrent_Device_Idx > 0))]_vars

C10_Witness ==
    /\ call.fn = "Routed_Device_Write_Property_Local"
    /\ call.m = "A"
    /\ ret.status
    /\ msg["A"].matched # -1
    /\ msg["A"].matched # call.ctx
    /\ Occupied(msg["A"].matched)
    /\ Occupied(call.ctx)
    /\ msg["B"].matched = call.ctx
    /\ Devices[call.ctx].Object_Instance_Number = 150
    /\ Devices[msg["A"].matched].Object_Instance_Number = 100
    /\ Devices[msg["A"].matched].Database_Revision = 0

(* What a read of one property of record r encodes *)
ReadOf(r, object_property) ==
    IF object_property = "PROP_OBJECT_IDENTIFIER"
    THEN <<OBJECT_DEVICE, r.Object_Instance_Number>>
    ELSE IF object_property = "PROP_OBJECT_NAME" THEN <<r.Object_Name>>
    ELSE IF object_property = "PROP_DESCRIPTION" THEN <<r.Description>>
    ELSE <<r.Database_Revision>>

AdminServices ==
    {"SERVICE_SUPPORTED_REINITIALIZE_DEVICE",
     "SERVICE_SUPPORTED_DEVICE_COMMUNICATION_CONTROL"}

(* C11: when messages are processed to completion one after the other, a   *)
(* property read, property write or service approval dispatched for a      *)
(* message after its GetNext returned true acts on the slot that GetNext   *)
(* matched: the selection names it, the write changes that record only,    *)
(* the read encodes that record, the approval is decided on that index.    *)
C11_RunToCompletionActsOnMatch ==
    [][(call'.fn \in {"Routed_Device_Write_Property_Local",
                      "Routed_Device_Read_Property_Local",
                      "Routed_Device_Service_Approval"})
       => LET k == msg[call'.m].matched
          IN  /\ k \in Slots
              /\ iCurrent_Device_Idx = k
              /\ iCurrent_Device_Idx' = k
              /\ \A i \in Slots \ {k} : Devices'[i] = Devices[i]
              /\ (call'.fn = "Routed_Device_Write_Property_Local"
                    /\ ret'.status)
                 => (/\ Devices'[k].Object_Instance_Number
                           = call'.wp_data.value.instance
                     /\ Devices'[k].Database_Revision
                           = Devices[k].Database_Revision + 1)
              /\ (call'.fn = "Routed_Device_Read_Property_Local")
                 => (ret'.encoded
                        = ReadOf(Devices[k], call'.rpdata.object_property))
              /\ (call'.fn = "Routed_Device_Service_Approval")
                 => ((ret' # 0) = (call'.service \in AdminServices /\ k > 0))
      ]_vars

C11_Witness ==
    /\ call.fn = "Routed_Device_Read_Property_Local"
    /\ call.m = "B"
    /\ msg["A"] = IdleMsg
    /\ msg["B"].matched = 1
    /\ msg["B"].hits = <<0, 1>>
    /\ Occupied(1)
    /\ call.ctx = 1
    /\ Devices[0].Object_Instance_Number = 150
    /\ Devices[1].Object_Instance_Number = 100
    /\ ret.encoded = <<OBJECT_DEVICE, 100>>

(* C12: approval refuses (non-zero) reinitialize-device and                *)
(* device-communication-control exactly when the selection names a         *)
(* non-zero slot, allows (0) every other service for every selection,      *)
(* answers 1 for a refusal with no reply buffer, and changes neither the   *)
(* selection nor the table.                                                *)
C12_ServiceApproval ==
    [][(call'.fn = "Routed_Device_Service_Approval")
       => (/\ (ret' # 0) = (/\ call'.service \in AdminServices
                            /\ iCurrent_Device_Idx # 0)
           /\ (ret' # 0 /\ call'.apdu_buff_null) => (ret' = 1)
           /\ iCurrent_Device_Idx' = iCurrent_Device_Idx
           /\ Devices' = Devices
           /\ Num_Managed_Devices' = Num_Managed_Devices)]_vars

C12_Witness ==
    /\ call.fn = "Routed_Device_Service_Approval"
    /\ call.service = "SERVICE_SUPPORTED_DEVICE_COMMUNICATION_CONTROL"
    /\ call.apdu_buff_null
    /\ iCurrent_Device_Idx = 1
    /\ Occupied(1)
    /\ ret = 1

(* C13: the network check answers true exactly when the destination        *)
(* network is the broadcast network, or 0, or any entry of DNET_list, and  *)
(* leaves the selection alone.                                             *)
C13_ReachableAnyEntry ==
    (call.fn = "Routed_Device_Is_Valid_Network")
    => (/\ ret = (\/ call.dest_net = BACNET_BROADCAST_NETWORK
                  \/ call.dest_net = 0
                  \/ call.dest_net \in DNetEntries(call.DNET_list, 1))
        /\ iCurrent_Device_Idx = call.ctx)

(* No two occupied slots hold the same instance number *)
InstanceUnique ==
    \A i, j \in Slots :
        (Occupied(i) /\ Occupied(j) /\ i # j)
        => (Devices[i].Object_Instance_Number
               # Devices[j].Object_Instance_Number)

(* C14: after any sequence of adds and object-identifier writes no two     *)
(* occupied slots hold the same instance number.                           *)
C14_InstanceUnique == InstanceUnique

(* C15: for every record added, the search by its current instance number  *)
(* returns that record's slot, and the validity check made with that       *)
(* number returns true and selects that slot.                              *)
C15_FindRoundTrip ==
    \A i \in Slots :
        Occupied(i)
        => (/\ Routed_Device_Instance_To_Index(
                   Devices, Devices[i].Object_Instance_Number) = i
            /\ (/\ call.fn = "Routed_Device_Valid_Object_Instance_Number"
                /\ call.object_id = Devices[i].Object_Instance_Number)
               => (ret = TRUE /\ iCurrent_Device_Idx = i))

(* C16: when no occupied slot holds the instance number asked for, the     *)
(* validity check returns false and selects slot 0 (the slot the search    *)
(* returns); it never selects an unoccupied slot.  Stated for a table      *)
(* that holds at least the gateway.                                        *)
C16_FindMissReturnsGateway ==
    (/\ call.fn = "Routed_Device_Valid_Object_Instance_Number"
     /\ Num_Managed_Devices >= 1
     /\ \A i \in Slots :
            Occupied(i)
            => Devices[i].Object_Instance_Number # call.object_id)
    => (/\ ret = FALSE
        /\ iCurrent_Device_Idx = 0
        /\ Routed_Device_Instance_To_Index(Devices, call.object_id) = 0)

(* C17: an add into a table of n < MAX_NUM_DEVICES records returns n,      *)
(* stores the record at index n with the instance number supplied, the     *)
(* name "No Name" and the description "No Descr" when none is supplied,    *)
(* and revision 0, leaves every other slot as it was, makes the table      *)
(* size n + 1 and selects slot n.                                          *)
C17_AddAppends ==
    [][(call'.fn = "Add_Routed_Device"
          /\ Num_Managed_Devices < MAX_NUM_DEVICES)
       => LET n == Num_Managed_Devices
          IN  /\ ret' = n
              /\ Num_Managed_Devices' = n + 1
              /\ iCurrent_Device_Idx' = n
              /\ \A i \in Slots \ {n} : Devices'[i] = Devices[i]
              /\ Devices'[n].Object_Instance_Number = call'.Object_Instance
              /\ call'.sObject_Name.null
                 => (Devices'[n].Object_Name = "No Name")
              /\ (~call'.sObject_Name.null)
                 => (Devices'[n].Object_Name = call'.sObject_Name.value)
              /\ call'.sDescription.null
                 => (Devices'[n].Description = "No Descr")
              /\ Devices'[n].Database_Revision = 0]_vars

C17_Witness ==
    /\ call.fn = "Add_Routed_Device"
    /\ call.num = 1
    /\ call.ctx = 0
    /\ call.sObject_Name.null
    /\ ret = 1
    /\ iCurrent_Device_Idx = 1
    /\ Num_Managed_Devices = 2
    /\ Devices[0].Object_Instance_Number = 150
    /\ Devices[0].Database_Revision = 1
    /\ Devices[0].Object_Name = "dev"
    /\ Devices[1] = [ZeroDevice EXCEPT !.Object_Instance_Number = 100,
                                       !.Object_Name = "No Name",
                                       !.Description = "No Descr"]

(* C18: the object accessor and the address accessor, called with the      *)
(* index of an occupied slot, return that slot and select it; called with  *)
(* -1 they return the selected slot and leave the selection as it was.     *)
C18_GetSelects ==
    (call.fn \in {"Get_Routed_Device_Object", "Get_Routed_Device_Address"})
    => (/\ Occupied(call.idx)
           => (ret = RefTo(call.idx) /\ iCurrent_Device_Idx = call.idx)
        /\ (call.idx = -1)
           => (ret = RefTo(call.ctx) /\ iCurrent_Device_Idx = call.ctx))

C18_Witness ==
    /\ call.fn = "Get_Routed_Device_Object"
    /\ call.idx = 1
    /\ Occupied(1)
    /\ call.ctx = 0
    /\ ret = RefTo(1)
    /\ iCurrent_Device_Idx = 1

(* C19: the object accessor called with an index that is not a valid row   *)
(* (negative other than -1, or not below the number of records added)      *)
(* returns NULL and leaves the selection as it was.  Stated for a table    *)
(* that holds at least the gateway.                                        *)
C19_GetInvalidRowIsNull ==
    (/\ call.fn = "Get_Routed_Device_Object"
     /\ Num_Managed_Devices >= 1
     /\ call.idx # -1
     /\ ~Occupied(call.idx))
    => (ret = NullRef /\ iCurrent_Device_Idx = call.ctx)

(* C20: a write of the object identifier with a device object id whose     *)
(* instance v is at most BACNET_MAX_INSTANCE, made while slot k is         *)
(* selected, succeeds, sets record k's instance to v, adds exactly 1 to    *)
(* its revision, changes no other record, and the search for v then        *)
(* returns k.  Stated for an occupied slot k of a table whose instance     *)
(* numbers are distinct before the write.                                  *)
C20_WriteIdentifierThenFind ==
    [][(/\ call'.fn = "Routed_Device_Write_Property_Local"
        /\ call'.wp_data.object_property = "PROP_OBJECT_IDENTIFIER"
        /\ call'.wp_data.value.type = OBJECT_DEVICE
        /\ call'.wp_data.value.instance <= BACNET_MAX_INSTANCE
        /\ Occupied(iCurrent_Device_Idx)
        /\ InstanceUnique)
       => LET k == iCurrent_Device_Idx
              v == call'.wp_data.value.instance
          IN  /\ ret'.status
              /\ Devices'[k].Object_Instance_Number = v
              /\ Devices'[k].Database_Revision
                    = Devices[k].Database_Revision + 1
              /\ \A i \in Slots \ {k} : Devices'[i] = Devices[i]
              /\ Routed_Device_Instance_To_Index(Devices', v) = k]_vars

(* C24: for a destination whose network is not the broadcast network, not  *)
(* 0 and not the gateway's virtual network DNET_list[0], GetNext returns   *)
(* false and the cursor -1 whatever cursor it was given, tests no slot and *)
(* leaves the selection as it was.                                         *)
C24_ForeignNetNoMatch ==
    (/\ IsGetNext
     /\ call.dest.net \notin {BACNET_BROADCAST_NETWORK, 0, call.DNET_list[1]})
    => (/\ ~ret.bSuccess
        /\ ret.cursor = -1
        /\ ret.tested = <<>>
        /\ iCurrent_Device_Idx = call.ctx
        /\ msg[call.m].st = "done")

C24_Witness ==
    /\ IsGetNext
    /\ call.dest.net = ForeignNet
    /\ call.cursor = 0
    /\ call.ctx = 1
    /\ Occupied(1)
    /\ ~ret.bSuccess
    /\ ret.cursor = -1
    /\ iCurrent_Device_Idx = 1

(* C25: GetNext given a cursor that is negative (-1 included) or at least  *)
(* MAX_NUM_DEVICES returns false and the cursor -1, tests no slot and      *)
(* leaves the selection as it was, for every destination.                  *)
C25_CursorOutOfRange ==
    (IsGetNext /\ call.cursor \notin Slots)
    => (/\ ~ret.bSuccess
        /\ ret.cursor = -1
        /\ ret.tested = <<>>
        /\ iCurrent_Device_Idx = call.ctx)

C25_Witness ==
    /\ IsGetNext
    /\ call.cursor = -1
    /\ call.dest.net = 0
    /\ call.dest.len = 0
    /\ call.ctx = 1
    /\ Occupied(1)
    /\ ~ret.bSuccess
    /\ ret.cursor = -1
    /\ iCurrent_Device_Idx = 1

(* C26: a cursor returned by GetNext that is not -1 is greater than the    *)
(* cursor passed in and less than MAX_NUM_DEVICES, and the caller's loop   *)
(* started at cursor 0 makes at most MAX_NUM_DEVICES calls.                *)
C26_CursorAdvances ==
    /\ (IsGetNext /\ ret.cursor # -1)
       => (ret.cursor > call.cursor /\ ret.cursor < MAX_NUM_DEVICES)
    /\ \A m \in Msgs :
           (msg[m].start = 0) => (msg[m].calls <= MAX_NUM_DEVICES)

C26_Witness ==
    /\ IsGetNext
    /\ msg[call.m].st = "done"
    /\ msg[call.m].start = 0
    /\ msg[call.m].calls = MAX_NUM_DEVICES
    /\ call.cursor = MAX_NUM_DEVICES - 1
    /\ Num_Managed_Devices = MAX_NUM_DEVICES

(* C27: when GetNext returns false the selection is what it was before the *)
(* call, in every branch; when it returns true the selection is the one    *)
(* slot that matched, the last one tested.                                 *)
C27_SelectionFollowsMatch ==
    IsGetNext
    => (/\ (~ret.bSuccess) => (iCurrent_Device_Idx = call.ctx)
        /\ ret.bSuccess
           => (/\ ret.tested # <<>>
               /\ iCurrent_Device_Idx = ret.tested[Len(ret.tested)]
               /\ SamePrefix(iCurrent_Device_Idx, call.dest.len,
                             call.dest.adr)
               /\ \A k \in 1 .. (Len(ret.tested) - 1) :
                      ~SamePrefix(ret.tested[k], call.dest.len,
                                  call.dest.adr)))

C27_Witness ==
    /\ IsGetNext
    /\ call.dest.net = VirtualNet
    /\ call.cursor = 0
    /\ Num_Managed_Devices = MAX_NUM_DEVICES
    /\ Len(ret.tested) = MAX_NUM_DEVICES - 1
    /\ ~ret.bSuccess
    /\ call.ctx = 0
    /\ iCurrent_Device_Idx = 0

---------------------------------------------------------------------------
(* The value of a write is refused by the checks of its property: for the  *)
(* identifier a value that is not an object identifier, an object type     *)
(* that is not device, an instance above BACNET_MAX_INSTANCE; for the name *)
(* a value that is not a character string or one that is too long.         *)
ValidationFails(wp_data) ==
    \/ /\ wp_data.object_property = "PROP_OBJECT_IDENTIFIER"
       /\ \/ wp_data.value.tag # "OBJECT_ID"
          \/ wp_data.value.type # OBJECT_DEVICE
          \/ wp_data.value.instance > BACNET_MAX_INSTANCE
    \/ /\ wp_data.object_property = "PROP_OBJECT_NAME"
       /\ \/ wp_data.value.tag # "CHARACTER_STRING"
          \/ Len(wp_data.value.string) > MAX_DEV_NAME_LEN
          \/ /\ Len(wp_data.value.string) = MAX_DEV_NAME_LEN
             /\ ~wp_data.string_valid

SetsIdentity(i) ==
    \/ /\ call'.fn \in {"Routed_Device_Set_Object_Instance_Number",
                        "Routed_Device_Set_Object_Name"}
       /\ call'.ctx = i
       /\ ret' = TRUE
    \/ /\ call'.fn = "Routed_Device_Write_Property_Local"
       /\ call'.ctx = i
       /\ ret'.status
       /\ \/ call'.wp_data.object_property = "PROP_OBJECT_IDENTIFIER"
          \/ /\ call'.wp_data.object_property = "PROP_OBJECT_NAME"
             /\ call'.wp_data.value.encoding = CHARACTER_UTF8
             /\ Len(call'.wp_data.value.string) < MAX_DEV_NAME_LEN

(* C22: the revision of an occupied slot never decreases; it grows by      *)
(* exactly one in the steps that set that slot's instance number or name   *)
(* and is unchanged in every other step (description sets, lookups,        *)
(* routing, reads, service approval, adds of other records).               *)
C22_RevisionCountsIdentityChanges ==
    [][\A i \in Slots :
          Occupied(i)
          => (/\ Devices'[i].Database_Revision >= Devices[i].Database_Revision
              /\ Devices'[i].Database_Revision
                    = Devices[i].Database_Revision
                         + (IF SetsIdentity(i) THEN 1 ELSE 0))]_vars

C22_Witness ==
    /\ call.fn = "Routed_Device_Set_Description"
    /\ call.ctx = 1
    /\ ret = TRUE
    /\ Devices[1].Description = Pad(MAX_DEV_DESC_LEN - 1)
    /\ Devices[1].Object_Instance_Number = 150
    /\ Devices[1].Object_Name = Pad(MAX_DEV_NAME_LEN - 1)
    /\ Devices[1].Database_Revision = 2
    /\ Devices[0].Database_Revision = 0

QueryFns ==
    {"Routed_Device_GetNext", "Routed_Device_Address_Lookup",
     "Routed_Device_Is_Valid_Network", "Get_Routed_Device_Object",
     "Get_Routed_Device_Address",
     "Routed_Device_Valid_Object_Instance_Number",
     "Routed_Device_Read_Property_Local", "Routed_Device_Service_Approval"}

MutatorFns ==
    {"Routed_Device_Set_Object_Instance_Number",
     "Routed_Device_Set_Object_Name", "Routed_Device_Set_Description",
     "Routed_Device_Write_Property_Local"}

(* C23: GetNext, the address lookup, the network test, the accessors, the  *)
(* instance check, the property read and service approval change no field  *)
(* of any record and not the table size; once slot 0 is occupied its       *)
(* record changes only in a setter or write issued while slot 0 is         *)
(* selected, and its instance number only to the number given to the       *)
(* instance-number setter or to an object-identifier write.                *)
C23_QueriesChangeNoRecord ==
    [][/\ (call'.fn \in QueryFns)
          => (Devices' = Devices
              /\ Num_Managed_Devices' = Num_Managed_Devices)
       /\ (Occupied(0) /\ Devices'[0] # Devices[0])
          => (/\ call'.fn \in MutatorFns
              /\ call'.ctx = 0
              /\ iCurrent_Device_Idx = 0)
       /\ (/\ Occupied(0)
           /\ Devices'[0].Object_Instance_Number
                 # Devices[0].Object_Instance_Number)
          => (\/ /\ call'.fn = "Routed_Device_Set_Object_Instance_Number"
                 /\ call'.object_id = Devices'[0].Object_Instance_Number
              \/ /\ call'.fn = "Routed_Device_Write_Property_Local"
                 /\ call'.wp_data.object_property = "PROP_OBJECT_IDENTIFIER"
                 /\ call'.wp_data.value.instance
                       = Devices'[0].Object_Instance_Number)]_vars

C23_Witness ==
    /\ IsGetNext
    /\ ret.bSuccess
    /\ iCurrent_Device_Idx = 1
    /\ Num_Managed_Devices = MAX_NUM_DEVICES
    /\ Devices[0].Object_Instance_Number = 150
    /\ Devices[0].Database_Revision = 1
    /\ Devices[1].Object_Instance_Number = 100

(* C28: a write of the object name that returns true has replaced the name *)
(* of the selected record by the written string and added exactly one to   *)
(* that record's revision.                                                 *)
C28_NameWriteSuccessReplacesName ==
    [][(/\ call'.fn = "Routed_Device_Write_Property_Local"
        /\ call'.wp_data.len >= 0
        /\ call'.wp_data.object_property = "PROP_OBJECT_NAME"
        /\ ret'.status)
       => (/\ Devices'[call'.ctx].Object_Name = call'.wp_data.value.string
           /\ Devices'[call'.ctx].Database_Revision
                 = Devices[call'.ctx].Database_Revision + 1)]_vars

(* C29: the name setter returns true exactly for a UTF-8 string shorter    *)
(* than MAX_DEV_NAME_LEN and the description setter exactly for a string   *)
(* shorter than MAX_DEV_DESC_LEN; a refused set changes no record, an      *)
(* accepted one changes the selected record only (its name and revision,   *)
(* or its description); neither changes the table size or the selection.   *)
C29_SettersAcceptExactlyShortStrings ==
    [][/\ (call'.fn = "Routed_Device_Set_Object_Name")
          => (/\ ret' = (/\ call'.encoding = CHARACTER_UTF8
                         /\ Len(call'.value) < MAX_DEV_NAME_LEN)
              /\ Devices'
                    = IF ret'
                      THEN [Devices EXCEPT
                               ![call'.ctx].Object_Name = call'.value,
                               ![call'.ctx].Database_Revision = @ + 1]
                      ELSE Devices
              /\ Num_Managed_Devices' = Num_Managed_Devices
              /\ iCurrent_Device_Idx' = iCurrent_Device_Idx)
       /\ (call'.fn = "Routed_Device_Set_Description")
          => (/\ ret' = (Len(call'.value) < MAX_DEV_DESC_LEN)
              /\ Devices'
                    = IF ret'
                      THEN [Devices EXCEPT
                               ![call'.ctx].Description = call'.value]
                      ELSE Devices
              /\ Num_Managed_Devices' = Num_Managed_Devices
              /\ iCurrent_Device_Idx' = iCurrent_Device_Idx)]_vars

C29_Witness ==
    /\ call.fn = "Routed_Device_Set_Object_Name"
    /\ call.encoding = CHARACTER_UTF8
    /\ Len(call.value) = MAX_DEV_NAME_LEN
    /\ call.ctx = 1
    /\ ret = FALSE
    /\ Devices[1].Object_Name = Pad(MAX_DEV_NAME_LEN - 1)
    /\ Devices[1].Description = Pad(MAX_DEV_DESC_LEN - 1)
    /\ Devices[1].Database_Revision = 1
    /\ Devices[0].Object_Name = "No Name"
    /\ Devices[0].Description = "No Descr"

(* C30: a write of a property other than the object identifier and the     *)
(* object name returns what Device_Write_Property_Local returns and        *)
(* changes no record, not the table size and not the selection; a read of  *)
(* the description or the revision encodes the field of the selected       *)
(* record, which such a write has left as it was.                          *)
C30_OtherWritesDelegated ==
    [][/\ (/\ call'.fn = "Routed_Device_Write_Property_Local"
           /\ call'.wp_data.len >= 0
           /\ call'.wp_data.object_property
                 \notin {"PROP_OBJECT_IDENTIFIER", "PROP_OBJECT_NAME"})
          => (/\ ret'.status = call'.wp_data.local
              /\ Devices' = Devices
              /\ Num_Managed_Devices' = Num_Managed_Devices
              /\ iCurrent_Device_Idx' = iCurrent_Device_Idx)
       /\ (/\ call'.fn = "Routed_Device_Read_Property_Local"
           /\ call'.rpdata.object_property
                 \in {"PROP_DESCRIPTION", "PROP_DATABASE_REVISION"}
           /\ ~call'.rpdata.null
           /\ call'.rpdata.application_data_len # 0)
          => (ret'.encoded
                 = ReadOf(Devices[call'.ctx],
                          call'.rpdata.object_property))]_vars

C30_Witness ==
    /\ call.fn = "Routed_Device_Write_Property_Local"
    /\ call.wp_data.object_property = "PROP_DESCRIPTION"
    /\ call.wp_data.len >= 0
    /\ call.wp_data.local
    /\ ret.status
    /\ call.ctx = 1
    /\ Devices[1].Description = Pad(MAX_DEV_DESC_LEN - 1)
    /\ Devices[1].Description # call.wp_data.value.string
    /\ Devices[1].Database_Revision = 1

(* C31: whenever Routed_Device_Is_Valid_Network answers false for the      *)
(* network of a destination and a reachable-network list, GetNext called   *)
(* for that destination and list returns false and the cursor -1 and       *)
(* leaves the selection as it was, whatever cursor it is given.            *)
C31_UnreachableNetNeverMatches ==
    (/\ IsGetNext
     /\ ~Routed_Device_Is_Valid_Network(call.dest.net, call.DNET_list))
    => (/\ ~ret.bSuccess
        /\ ret.cursor = -1
        /\ iCurrent_Device_Idx = call.ctx)

C31_Witness ==
    /\ IsGetNext
    /\ call.dest.net = SecondNet
    /\ call.DNET_list = <<VirtualNet, SecondNet, -1>>
    /\ ~Routed_Device_Is_Valid_Network(call.dest.net, call.DNET_list)
    /\ call.cursor = 1
    /\ call.ctx = 1
    /\ Occupied(1)
    /\ ~ret.bSuccess
    /\ ret.cursor = -1
    /\ iCurrent_Device_Idx = 1

(* C32: in every reachable state the selection is an index of the table,   *)
(* 0 .. MAX_NUM_DEVICES - 1, and the number of occupied slots is in        *)
(* 0 .. MAX_NUM_DEVICES, so Devices[iCurrent_Device_Idx] is a slot of the  *)
(* table.                                                                  *)
C32_SelectionInsideTable ==
    /\ iCurrent_Device_Idx \in 0 .. (MAX_NUM_DEVICES - 1)
    /\ Num_Managed_Devices \in 0 .. MAX_NUM_DEVICES
    /\ iCurrent_Device_Idx \in DOMAIN Devices

C32_Witness ==
    /\ call.fn = "Get_Routed_Device_Object"
    /\ call.idx = MAX_NUM_DEVICES
    /\ call.ctx = MAX_NUM_DEVICES - 1
    /\ ret = NullRef
    /\ Num_Managed_Devices = MAX_NUM_DEVICES
    /\ iCurrent_Device_Idx = MAX_NUM_DEVICES - 1

=============================================================================
